---- MODULE Spec2Model ----
(***************************************************************************)
(* iochain: StackWriter (stackwriter.go) and MultiReader (multireader.go). *)
(* A stack is a slice of layers, index 0 = base, last index = top.         *)
(* Layers are opaque objects; what the stack can observe of a layer is     *)
(* which optional interfaces it implements (Flusher, io.Closer) and what   *)
(* its methods return.  Every call the stack makes on a layer is recorded  *)
(* in the call log of the operation that made it.                          *)
(* Spec runs the methods one at a time; SpecMu, SpecMuFair and SpecRe run  *)
(* them statement by statement on several goroutines; SpecBuf puts         *)
(* buffering layers over a sink; SpecTee is the ReaderToWriter adapter.    *)
(***************************************************************************)
EXTENDS Integers, Sequences, FiniteSets, TLC

\* ---------------------------------------------------------------- bounds
\* Longest layer slice explored (base included).
MaxDepth == 3
\* Longest caller buffer handed to Write / Read.
MaxBufLen == 1
\* Bytes written in all, and bytes passed to one Write, in SpecBuf.
MaxWritten == 4
MaxWriteLen == 3
\* Longest caller buffer handed to ReaderToWriter.Read, and bytes read
\* through it in all, in SpecTee.
MaxTeeBuf == 2
MaxTeeBytes == 2
\* Goroutines sharing one stack in SpecMu.
NumThreads == 2
\* Longest layer slice explored in SpecMu (base included).
MuMaxDepth == 2

\* ---------------------------------------------------------------- values
\* Go's nil pointer / nil interface value (a nil slice is <<>>).
Nil == [nil |-> TRUE]
\* Go's nil error.
NoError == "nil"

\* A layer object: the dynamic type decides the type assertions
\* m.writers[i].(Flusher) and m.writers[i].(io.Closer).
Layer == [flusher : BOOLEAN, closer : BOOLEAN]

\* Arguments a caller can pass where a layer is expected.
LayerArg == Layer \cup {Nil}

Byte == {7, 9}

\* Caller buffers p.
Bufs == UNION {[1..n -> Byte] : n \in 0..MaxBufLen}

\* Error values.
ErrBaseWriterNil == "base writer cannot be nil"
ErrWriterNil == "writer cannot be nil"
ErrBaseReaderNil == "base reader cannot be nil"
ErrReaderNil == "reader cannot be nil"
ErrClosedPipe == "io: read/write on closed pipe"
EOF == "EOF"
\* runtime panic of m.writers[i] with i outside the slice
PanicIndex == "panic: runtime error: index out of range"
\* Errors coming out of the layers: each call site gets its own value, so
\* that the error an operation returns tells which layer call produced it.
LayerErr(fn, i) == fn \o " failed at " \o ToString(i)
ErrLayerWrite == "layer write error"
ErrLayerRead == "layer read error"
ErrLayerReset == "layer reset error"

\* Go slice indexing (0-based) on a TLA+ sequence (1-based).
At(s, i) == s[i + 1]

\* One call made by the stack on a layer: the method, the slice index of the
\* layer (-1 for a layer not in the slice yet), the layer object, the
\* argument and the returned value.
Call(fn, i, obj, arg, ret) ==
    [fn |-> fn, idx |-> i, layer |-> obj, arg |-> arg, ret |-> ret]

\* The Reset calls of a call log that returned no error.
SuccessfulResets(calls) ==
    SelectSeq(calls, LAMBDA c : c.fn = "Reset" /\ c.ret = NoError)

\* ----------------------------------------------------------------- state
VARIABLES
    sw,     \* the *StackWriter: Nil before construction, else [base, writers]
    mr,     \* the *MultiReader: Nil before construction, else [readers]
    last,   \* the last operation: name, argument, slice before it, result, calls
    mu,     \* m.mu: 0 when unlocked, else the goroutine holding it
    th,     \* per goroutine: where it is inside a method, and its locals
    resets, \* history: every Reset call so far that returned no error
    closes, \* history: the layer of every Close call so far, in call order
    inner,  \* per goroutine: the call a layer made back into the stack, if any
    bw,     \* buffering layers over a sink: buffers, bytes written, Close calls
    tee     \* the *ReaderToWriter with what its source and target have seen

vars == <<sw, mr, last, mu, th, resets, closes, inner, bw, tee>>

NoOp ==
    [op |-> "none", arg |-> Nil, pre |-> <<>>, ret |-> NoError, calls |-> <<>>]

Done(op, arg, pre, ret, calls) ==
    [op |-> op, arg |-> arg, pre |-> pre, ret |-> ret, calls |-> calls]

\* Goroutines calling into one stack.
Threads == 1 .. NumThreads

\* A goroutine that is not inside a method of the stack.
Idle ==
    [pc |-> "idle", op |-> "none", arg |-> Nil, pre |-> <<>>, i |-> 0,
     firstErr |-> NoError, calls |-> <<>>, n |-> 0, ret |-> NoError]

\* A goroutine none of whose layer calls has called back into the stack.
NoCall == [pc |-> "none", op |-> "none", arg |-> Nil, ret |-> NoError]

\* The layers of the Close calls among calls, in call order.
ClosedBy(calls) ==
    LET cs == SelectSeq(calls, LAMBDA c : c.fn = "Close") IN
    [k \in 1 .. Len(cs) |-> cs[k].layer]

\* Spec: methods are called one at a time, each running to its return.
Init ==
    /\ sw = Nil
    /\ mr = Nil
    /\ last = NoOp
    /\ mu = 0
    /\ th = [t \in Threads |-> Idle]
    /\ resets = <<>>
    /\ closes = <<>>
    /\ inner = [t \in Threads |-> NoCall]
    /\ bw = Nil
    /\ tee = Nil

\* The slice of the stack the behaviour follows; <<>> before construction.
Layers ==
    IF sw # Nil THEN sw.writers ELSE IF mr # Nil THEN mr.readers ELSE <<>>

Constructed == sw # Nil \/ mr # Nil

\* Slice indices of s, Go style.
Indices(s) == 0 .. (Len(s) - 1)

\* The indices of s whose layer implements Flusher / io.Closer.
FlusherIdx(s) == {i \in Indices(s) : At(s, i).flusher}
CloserIdx(s) == {i \in Indices(s) : At(s, i).closer}

\* Bug variant of KeepFirst: the last error of the sweep wins.
KeepLast(firstErr, err) ==
    IF err # NoError THEN err ELSE firstErr

\* firstErr after one more layer call returned err:
\*   if err != nil && firstErr == nil { firstErr = err }
KeepFirst(firstErr, err) ==
    IF err # NoError /\ firstErr = NoError THEN err ELSE firstErr

\* What a layer method returns at index i, given the set of indices at which
\* the environment makes it fail during this operation.
Outcome(fn, fails, i) == IF i \in fails THEN LayerErr(fn, i) ELSE NoError

\* ----------------------------------------------------------- StackWriter

\* Bug variant of NewStackWriterResult: the nil check is missing.
NewStackWriterResultNoNilCheck(base) ==
    [stack |-> [base |-> base, writers |-> <<base>>], err |-> NoError]

\* NewStackWriter(base): the pair (stack, error) it returns.
NewStackWriterResult(base) ==
    IF base = Nil
    THEN [stack |-> Nil, err |-> ErrBaseWriterNil]
    ELSE [stack |-> [base |-> base, writers |-> <<base>>], err |-> NoError]

\* A behaviour follows one stack object, built by the first constructor call
\* that succeeds: the two types share no state (no package-level variables).
NewStackWriter ==
    /\ sw = Nil /\ mr = Nil
    /\ \E base \in LayerArg :
        LET r == NewStackWriterResult(base) IN
        /\ sw' = r.stack
        /\ last' = Done("NewStackWriter", base, <<>>, r, <<>>)
    /\ UNCHANGED <<mr, mu, th, resets, closes, inner, bw, tee>>

\* Bug variant of AddWriterResult: w is put in front of the slice.
AddWriterResultPrepend(ws, w) ==
    IF w = Nil
    THEN [writers |-> ws, ret |-> ErrWriterNil, calls |-> <<>>]
    ELSE IF Len(ws) = 0
    THEN [writers |-> ws, ret |-> PanicIndex, calls |-> <<>>]
    ELSE LET prev == At(ws, Len(ws) - 1) IN
         [writers |-> <<w>> \o ws,
          ret |-> NoError,
          calls |-> <<Call("Reset", -1, w, prev, NoError)>>]

\* Bug variant of AddWriterResult: w is appended before prev is read, so w is
\* reset onto itself.
AddWriterResultAppendFirst(ws, w) ==
    IF w = Nil
    THEN [writers |-> ws, ret |-> ErrWriterNil, calls |-> <<>>]
    ELSE IF Len(ws) = 0
    THEN [writers |-> ws, ret |-> PanicIndex, calls |-> <<>>]
    ELSE LET grown == Append(ws, w)
             prev == At(grown, Len(grown) - 1)
         IN [writers |-> grown,
             ret |-> NoError,
             calls |-> <<Call("Reset", -1, w, prev, NoError)>>]

\* AddWriter(w) on slice ws: the slice afterwards, the error returned (or the
\* panic raised) and the calls made on layers.
AddWriterResult(ws, w) ==
    IF w = Nil
    THEN [writers |-> ws, ret |-> ErrWriterNil, calls |-> <<>>]
    ELSE IF Len(ws) = 0
    THEN \* prev := m.writers[len(m.writers)-1] panics; the deferred Unlock runs
         [writers |-> ws, ret |-> PanicIndex, calls |-> <<>>]
    ELSE LET prev == At(ws, Len(ws) - 1) IN
         [writers |-> Append(ws, w),
          ret |-> NoError,
          calls |-> <<Call("Reset", -1, w, prev, NoError)>>]

AddWriter ==
    /\ sw # Nil
    /\ \E w \in LayerArg :
        /\ (w # Nil /\ Len(sw.writers) > 0) => Len(sw.writers) < MaxDepth
        /\ LET r == AddWriterResult(sw.writers, w) IN
           /\ sw' = [sw EXCEPT !.writers = r.writers]
           /\ last' = Done("AddWriter", w, sw.writers, r.ret, r.calls)
           /\ resets' = resets \o SuccessfulResets(r.calls)
    /\ UNCHANGED <<mr, mu, th, closes, inner, bw, tee>>

\* Bug variant of WriteResult: writes to m.base instead of the top layer.
WriteResultToBase(ws, p, n, err) ==
    IF Len(ws) = 0
    THEN [ret |-> <<0, ErrClosedPipe>>, calls |-> <<>>]
    ELSE [ret |-> <<n, err>>,
          calls |-> <<Call("Write", 0, At(ws, 0), p, <<n, err>>)>>]

\* Write(p) on slice ws, where the top layer's Write would return (n, err).
WriteResult(ws, p, n, err) ==
    IF Len(ws) = 0
    THEN [ret |-> <<0, ErrClosedPipe>>, calls |-> <<>>]
    ELSE LET top == Len(ws) - 1 IN
         [ret |-> <<n, err>>,
          calls |-> <<Call("Write", top, At(ws, top), p, <<n, err>>)>>]

Write ==
    /\ sw # Nil
    /\ \E p \in Bufs, n \in 0..MaxBufLen, err \in {NoError, ErrLayerWrite} :
        /\ n <= Len(p)
        /\ (err = NoError) => (n = Len(p))
        /\ LET r == WriteResult(sw.writers, p, n, err) IN
           last' = Done("Write", p, sw.writers, r.ret, r.calls)
    /\ UNCHANGED <<sw, mr, mu, th, resets, closes, inner, bw, tee>>

\* Bug variant of FlushLoop: the loop runs from base to top.
RECURSIVE FlushLoopUp(_, _, _, _, _, _)
FlushLoopUp(ws, fails, i, n, firstErr, calls) ==
    IF i > n
    THEN [firstErr |-> firstErr, calls |-> calls]
    ELSE IF At(ws, i).flusher
    THEN LET err == Outcome("Flush", fails, i) IN
         FlushLoopUp(ws, fails, i + 1, n, KeepFirst(firstErr, err),
                     Append(calls, Call("Flush", i, At(ws, i), Nil, err)))
    ELSE FlushLoopUp(ws, fails, i + 1, n, firstErr, calls)

FlushLoopBaseToTop(ws, fails, i, firstErr, calls) ==
    FlushLoopUp(ws, fails, 0, i, firstErr, calls)

\* Bug variant of FlushLoop: only the top layer is flushed.
FlushLoopTopOnly(ws, fails, i, firstErr, calls) ==
    IF i < 0 \/ ~At(ws, i).flusher
    THEN [firstErr |-> firstErr, calls |-> calls]
    ELSE LET err == Outcome("Flush", fails, i) IN
         [firstErr |-> KeepFirst(firstErr, err),
          calls |-> Append(calls, Call("Flush", i, At(ws, i), Nil, err))]

\* The loop of Flush from index i down to 0.
RECURSIVE FlushLoop(_, _, _, _, _)
FlushLoop(ws, fails, i, firstErr, calls) ==
    IF i < 0
    THEN [firstErr |-> firstErr, calls |-> calls]
    ELSE IF At(ws, i).flusher
    THEN LET err == Outcome("Flush", fails, i) IN
         FlushLoop(ws, fails, i - 1, KeepFirst(firstErr, err),
                   Append(calls, Call("Flush", i, At(ws, i), Nil, err)))
    ELSE FlushLoop(ws, fails, i - 1, firstErr, calls)

\* Bug variant of Flush: a failed flush tears the stack down.
FlushDropsOnError ==
    /\ sw # Nil
    /\ \E fails \in SUBSET FlusherIdx(sw.writers) :
        LET r == FlushLoop(sw.writers, fails, Len(sw.writers) - 1, NoError, <<>>) IN
        /\ sw' = [sw EXCEPT !.writers = IF r.firstErr = NoError THEN @ ELSE <<>>]
        /\ last' = Done("Flush", Nil, sw.writers, r.firstErr, r.calls)
    /\ UNCHANGED <<mr, mu, th, resets, closes, inner, bw, tee>>

Flush ==
    /\ sw # Nil
    /\ \E fails \in SUBSET FlusherIdx(sw.writers) :
        LET r == FlushLoop(sw.writers, fails, Len(sw.writers) - 1, NoError, <<>>) IN
        last' = Done("Flush", Nil, sw.writers, r.firstErr, r.calls)
    /\ UNCHANGED <<sw, mr, mu, th, resets, closes, inner, bw, tee>>

\* The loop of StackWriter.Close from index i down to 0.
RECURSIVE CloseLoop(_, _, _, _, _)
CloseLoop(ws, fails, i, firstErr, calls) ==
    IF i < 0
    THEN [firstErr |-> firstErr, calls |-> calls]
    ELSE IF At(ws, i).closer
    THEN LET err == Outcome("Close", fails, i) IN
         CloseLoop(ws, fails, i - 1, KeepFirst(firstErr, err),
                   Append(calls, Call("Close", i, At(ws, i), Nil, err)))
    ELSE CloseLoop(ws, fails, i - 1, firstErr, calls)

\* Bug variant of ClosedWriters: Close forgets to drop the slice.
ClosedWritersKept(ws) == ws

\* m.writers after StackWriter.Close: m.writers = nil
ClosedWriters(ws) == <<>>

StackWriterClose ==
    /\ sw # Nil
    /\ \E fails \in SUBSET CloserIdx(sw.writers) :
        LET r == CloseLoop(sw.writers, fails, Len(sw.writers) - 1, NoError, <<>>) IN
        /\ sw' = [sw EXCEPT !.writers = ClosedWriters(sw.writers)]
        /\ last' = Done("Close", Nil, sw.writers, r.firstErr, r.calls)
        /\ closes' = closes \o ClosedBy(r.calls)
    /\ UNCHANGED <<mr, mu, th, resets, inner, bw, tee>>

\* FlushAndClose: the flush loop, then the close loop with the same firstErr.
RECURSIVE FlushAndCloseFlushLoop(_, _, _, _, _)
FlushAndCloseFlushLoop(ws, fails, i, firstErr, calls) ==
    IF i < 0
    THEN [firstErr |-> firstErr, calls |-> calls]
    ELSE IF At(ws, i).flusher
    THEN LET err == Outcome("Flush", fails, i) IN
         FlushAndCloseFlushLoop(ws, fails, i - 1, KeepFirst(firstErr, err),
                   Append(calls, Call("Flush", i, At(ws, i), Nil, err)))
    ELSE FlushAndCloseFlushLoop(ws, fails, i - 1, firstErr, calls)

RECURSIVE FlushAndCloseCloseLoop(_, _, _, _, _)
FlushAndCloseCloseLoop(ws, fails, i, firstErr, calls) ==
    IF i < 0
    THEN [firstErr |-> firstErr, calls |-> calls]
    ELSE IF At(ws, i).closer
    THEN LET err == Outcome("Close", fails, i) IN
         FlushAndCloseCloseLoop(ws, fails, i - 1, KeepFirst(firstErr, err),
                   Append(calls, Call("Close", i, At(ws, i), Nil, err)))
    ELSE FlushAndCloseCloseLoop(ws, fails, i - 1, firstErr, calls)

\* Bug variant of FlushAndCloseResult: the close pass runs before the flush
\* pass.
FlushAndCloseResultCloseFirst(ws, flushFails, closeFails) ==
    LET c == FlushAndCloseCloseLoop(ws, closeFails, Len(ws) - 1, NoError, <<>>)
        f == FlushAndCloseFlushLoop(ws, flushFails, Len(ws) - 1,
                                    c.firstErr, c.calls)
    IN [writers |-> <<>>, ret |-> f.firstErr, calls |-> f.calls]

\* Bug variant of FlushAndCloseResult: the close pass starts from a fresh
\* firstErr, and its error is preferred over the flush pass's.
FlushAndCloseResultCloseErrorWins(ws, flushFails, closeFails) ==
    LET f == FlushAndCloseFlushLoop(ws, flushFails, Len(ws) - 1, NoError, <<>>)
        c == FlushAndCloseCloseLoop(ws, closeFails, Len(ws) - 1,
                                    NoError, f.calls)
    IN [writers |-> <<>>,
        ret |-> KeepFirst(c.firstErr, f.firstErr),
        calls |-> c.calls]

\* The whole body of FlushAndClose on slice ws.
FlushAndCloseResult(ws, flushFails, closeFails) ==
    LET f == FlushAndCloseFlushLoop(ws, flushFails, Len(ws) - 1, NoError, <<>>)
        c == FlushAndCloseCloseLoop(ws, closeFails, Len(ws) - 1,
                                    f.firstErr, f.calls)
    IN [writers |-> <<>>, ret |-> c.firstErr, calls |-> c.calls]

FlushAndClose ==
    /\ sw # Nil
    /\ \E flushFails \in SUBSET FlusherIdx(sw.writers),
          closeFails \in SUBSET CloserIdx(sw.writers) :
        LET r == FlushAndCloseResult(sw.writers, flushFails, closeFails) IN
        /\ sw' = [sw EXCEPT !.writers = r.writers]
        /\ last' = Done("FlushAndClose", Nil, sw.writers, r.ret, r.calls)
        /\ closes' = closes \o ClosedBy(r.calls)
    /\ UNCHANGED <<mr, mu, th, resets, inner, bw, tee>>

\* ----------------------------------------------------------- MultiReader

\* NewReader(base): the pair (stack, error) it returns.
NewReaderResult(base) ==
    IF base = Nil
    THEN [stack |-> Nil, err |-> ErrBaseReaderNil]
    ELSE [stack |-> [readers |-> <<base>>], err |-> NoError]

NewReader ==
    /\ mr = Nil /\ sw = Nil
    /\ \E base \in LayerArg :
        LET r == NewReaderResult(base) IN
        /\ mr' = r.stack
        /\ last' = Done("NewReader", base, <<>>, r, <<>>)
    /\ UNCHANGED <<sw, mu, th, resets, closes, inner, bw, tee>>

\* Bug variant of AddReaderResult: r is appended whatever Reset returned.
AddReaderResultAppendOnError(rs, r, resetErr) ==
    IF r = Nil
    THEN [readers |-> rs, ret |-> ErrReaderNil, calls |-> <<>>]
    ELSE IF Len(rs) = 0
    THEN [readers |-> rs, ret |-> PanicIndex, calls |-> <<>>]
    ELSE LET prev == At(rs, Len(rs) - 1) IN
         [readers |-> Append(rs, r),
          ret |-> resetErr,
          calls |-> <<Call("Reset", -1, r, prev, resetErr)>>]

\* AddReader(r) on slice rs, where r.Reset(prev) would return resetErr.
AddReaderResult(rs, r, resetErr) ==
    IF r = Nil
    THEN [readers |-> rs, ret |-> ErrReaderNil, calls |-> <<>>]
    ELSE IF Len(rs) = 0
    THEN \* prev := m.readers[len(m.readers)-1] panics; the deferred Unlock runs
         [readers |-> rs, ret |-> PanicIndex, calls |-> <<>>]
    ELSE LET prev == At(rs, Len(rs) - 1) IN
         IF resetErr # NoError
         THEN [readers |-> rs,
               ret |-> resetErr,
               calls |-> <<Call("Reset", -1, r, prev, resetErr)>>]
         ELSE [readers |-> Append(rs, r),
               ret |-> NoError,
               calls |-> <<Call("Reset", -1, r, prev, resetErr)>>]

AddReader ==
    /\ mr # Nil
    /\ \E r \in LayerArg, resetErr \in {NoError, ErrLayerReset} :
        /\ (r # Nil /\ Len(mr.readers) > 0) => Len(mr.readers) < MaxDepth
        /\ LET res == AddReaderResult(mr.readers, r, resetErr) IN
           /\ mr' = [mr EXCEPT !.readers = res.readers]
           /\ last' = Done("AddReader", r, mr.readers, res.ret, res.calls)
           /\ resets' = resets \o SuccessfulResets(res.calls)
    /\ UNCHANGED <<sw, mu, th, closes, inner, bw, tee>>

\* Read(p) on slice rs, where the top layer's Read would return (n, err).
ReadResult(rs, p, n, err) ==
    IF Len(rs) = 0
    THEN [ret |-> <<0, EOF>>, calls |-> <<>>]
    ELSE LET top == Len(rs) - 1 IN
         [ret |-> <<n, err>>,
          calls |-> <<Call("Read", top, At(rs, top), p, <<n, err>>)>>]

Read ==
    /\ mr # Nil
    /\ \E p \in Bufs, n \in 0..MaxBufLen, err \in {NoError, EOF, ErrLayerRead} :
        /\ n <= Len(p)
        /\ LET r == ReadResult(mr.readers, p, n, err) IN
           last' = Done("Read", p, mr.readers, r.ret, r.calls)
    /\ UNCHANGED <<sw, mr, mu, th, resets, closes, inner, bw, tee>>

\* The loop of MultiReader.Close from index i down to 0.
RECURSIVE ReaderCloseLoop(_, _, _, _, _)
ReaderCloseLoop(rs, fails, i, firstErr, calls) ==
    IF i < 0
    THEN [firstErr |-> firstErr, calls |-> calls]
    ELSE IF At(rs, i).closer
    THEN LET err == Outcome("Close", fails, i) IN
         ReaderCloseLoop(rs, fails, i - 1, KeepFirst(firstErr, err),
                   Append(calls, Call("Close", i, At(rs, i), Nil, err)))
    ELSE ReaderCloseLoop(rs, fails, i - 1, firstErr, calls)

\* Bug variant of ClosedReaders: Close forgets to drop the slice.
ClosedReadersKept(rs) == rs

\* m.readers after MultiReader.Close: m.readers = nil
ClosedReaders(rs) == <<>>

MultiReaderClose ==
    /\ mr # Nil
    /\ \E fails \in SUBSET CloserIdx(mr.readers) :
        LET r == ReaderCloseLoop(mr.readers, fails, Len(mr.readers) - 1,
                                 NoError, <<>>) IN
        /\ mr' = [mr EXCEPT !.readers = ClosedReaders(mr.readers)]
        /\ last' = Done("ReaderClose", Nil, mr.readers, r.firstErr, r.calls)
        /\ closes' = closes \o ClosedBy(r.calls)
    /\ UNCHANGED <<sw, mu, th, resets, inner, bw, tee>>

Next ==
    \/ NewStackWriter
    \/ AddWriter
    \/ Write
    \/ Flush
    \/ StackWriterClose
    \/ FlushAndClose
    \/ NewReader
    \/ AddReader
    \/ Read
    \/ MultiReaderClose

Spec == Init /\ [][Next]_vars

\* ------------------------------------------- goroutines sharing one stack
\* SpecMu: NumThreads goroutines call the methods of one constructed stack.
\* A method is a sequence of steps: entry, m.mu.Lock(), the statements of
\* the body (one step per layer call or slice update), and the deferred
\* m.mu.Unlock() with the return.  The bookkeeping of Spec (last, resets) is
\* not kept here: what a goroutine has done is in its locals th[t].

WriterOps == {"AddWriter", "Write", "Flush", "Close", "FlushAndClose"}
ReaderOps == {"AddReader", "Read", "ReaderClose"}

\* The layers of the step-level model: one implementing Flusher and
\* io.Closer, one implementing neither, so that a loop round with a layer
\* call and one without both occur.
MuLayer == {[flusher |-> TRUE, closer |-> TRUE],
            [flusher |-> FALSE, closer |-> FALSE]}

\* The arguments the goroutines pass to method op (one buffer: what a
\* buffer holds plays no part in locking).  Write and Read take the buffer
\* as their parameter p.
ArgsOf(op) ==
    IF op \in {"AddWriter", "AddReader"} THEN MuLayer \cup {Nil}
    ELSE IF op \in {"Write", "Read"} THEN {[p |-> <<7>>]}
    ELSE {Nil}

\* The statement a method starts with once it holds the lock.
BodyPc(op) ==
    CASE op \in {"AddWriter", "AddReader"} -> "reset"
      [] op = "Write" -> "write"
      [] op = "Read" -> "read"
      [] op \in {"Flush", "FlushAndClose"} -> "flush"
      [] op \in {"Close", "ReaderClose"} -> "close"

\* Goroutines that are inside AddWriter / AddReader and may still append.
Adding ==
    {u \in Threads : /\ th[u].op \in {"AddWriter", "AddReader"}
                     /\ th[u].pc \in {"lock", "reset", "append"}}

InitMu ==
    /\ \E base \in MuLayer :
        \/ sw = NewStackWriterResult(base).stack /\ mr = Nil
        \/ mr = NewReaderResult(base).stack /\ sw = Nil
    /\ last = NoOp
    /\ mu = 0
    /\ th = [t \in Threads |-> Idle]
    /\ resets = <<>>
    /\ closes = <<>>
    /\ inner = [t \in Threads |-> NoCall]
    /\ bw = Nil
    /\ tee = Nil

\* Goroutine t enters a method.  AddWriter / AddReader return their error for
\* a nil layer before touching the lock.
MuCall(t) ==
    /\ th[t].pc = "idle"
    /\ \E op \in (IF sw # Nil THEN WriterOps ELSE ReaderOps) :
       \E arg \in ArgsOf(op) :
        IF op \in {"AddWriter", "AddReader"} /\ arg = Nil
        THEN th' = [th EXCEPT ![t] =
                      [Idle EXCEPT !.pc = "done", !.op = op, !.arg = arg,
                                   !.pre = Layers,
                                   !.ret = IF op = "AddWriter"
                                           THEN ErrWriterNil
                                           ELSE ErrReaderNil]]
        ELSE /\ op \in {"AddWriter", "AddReader"} =>
                    Len(Layers) + Cardinality(Adding) < MuMaxDepth
             /\ th' = [th EXCEPT ![t] = [Idle EXCEPT !.pc = "lock",
                                                     !.op = op, !.arg = arg]]
    /\ UNCHANGED <<sw, mr, last, mu, resets, closes, inner, bw, tee>>

\* Bug variant of MuLock: Lock does not wait for the holder.
MuLockNoWait(t) ==
    /\ th[t].pc = "lock"
    /\ mu' = t
    /\ th' = [th EXCEPT ![t] = [th[t] EXCEPT !.pc = BodyPc(th[t].op),
                                             !.pre = Layers,
                                             !.i = Len(Layers) - 1]]
    /\ UNCHANGED <<sw, mr, last, resets, closes, inner, bw, tee>>

\* m.mu.Lock(): blocks while another goroutine holds the mutex.  pre is the
\* slice as the method finds it; i is where its loop, if any, will start.
MuLock(t) ==
    /\ th[t].pc = "lock"
    /\ mu = 0
    /\ mu' = t
    /\ th' = [th EXCEPT ![t] = [th[t] EXCEPT !.pc = BodyPc(th[t].op),
                                             !.pre = Layers,
                                             !.i = Len(Layers) - 1]]
    /\ UNCHANGED <<sw, mr, last, resets, closes, inner, bw, tee>>

\* The locals of a goroutine whose body raised a runtime panic: the deferred
\* Unlock is what runs next.
Panicked(l) == [l EXCEPT !.pc = "unlock", !.ret = PanicIndex]

\* AddWriter: prev := m.writers[len(m.writers)-1]; w.Reset(prev)
MuAddWriterReset(t) ==
    LET l == th[t] IN
    /\ l.pc = "reset" /\ l.op = "AddWriter"
    /\ IF Len(sw.writers) = 0
       THEN th' = [th EXCEPT ![t] = Panicked(l)]
       ELSE LET c == Call("Reset", -1, l.arg,
                          At(sw.writers, Len(sw.writers) - 1), NoError) IN
            th' = [th EXCEPT ![t] = [l EXCEPT !.pc = "append",
                                              !.calls = <<c>>]]
    /\ UNCHANGED <<sw, mr, last, mu, resets, closes, inner, bw, tee>>

\* AddWriter: m.writers = append(m.writers, w); return nil
MuAddWriterAppend(t) ==
    LET l == th[t] IN
    /\ l.pc = "append" /\ l.op = "AddWriter"
    /\ sw' = [sw EXCEPT !.writers = Append(@, l.arg)]
    /\ th' = [th EXCEPT ![t] = [l EXCEPT !.pc = "unlock", !.ret = NoError]]
    /\ UNCHANGED <<mr, last, mu, resets, closes, inner, bw, tee>>

\* Write: the length check and the call on the top layer.
MuWrite(t) ==
    LET l == th[t] IN
    /\ l.pc = "write"
    /\ \E n \in 0..Len(l.arg.p) : \E err \in {NoError, ErrLayerWrite} :
        /\ (err = NoError) => (n = Len(l.arg.p))
        /\ LET r == WriteResult(sw.writers, l.arg.p, n, err) IN
           th' = [th EXCEPT ![t] = [l EXCEPT !.pc = "unlock",
                                             !.n = r.ret[1],
                                             !.ret = r.ret[2],
                                             !.calls = r.calls]]
    /\ UNCHANGED <<sw, mr, last, mu, resets, closes, inner, bw, tee>>

\* One round of a loop `for i := len(s) - 1; i >= 0; i--` over slice s that
\* calls method fn on s[i] when the layer implements it (impl), the call
\* returning err: the goroutine's locals afterwards.  At i < 0 the loop is
\* left for the statement exitPc; when that is the return, firstErr is what
\* the method returns.
LoopRound(l, s, fn, impl, err, exitPc) ==
    IF l.i < 0
    THEN [l EXCEPT !.pc = exitPc, !.i = Len(s) - 1,
                   !.ret = IF exitPc = "unlock" THEN l.firstErr ELSE @]
    ELSE IF l.i >= Len(s)
    THEN Panicked(l)
    ELSE IF impl
    THEN [l EXCEPT !.i = @ - 1,
                   !.firstErr = KeepFirst(@, err),
                   !.calls = Append(@, Call(fn, l.i, At(s, l.i), Nil, err))]
    ELSE [l EXCEPT !.i = @ - 1]

\* Whether the layer at the loop's index implements the capability.
ImplAt(s, i, cap) ==
    /\ i \in Indices(s)
    /\ IF cap = "Flush" THEN At(s, i).flusher ELSE At(s, i).closer

\* What the layer call of this round can return.
RoundErrs(s, i, cap) ==
    IF ImplAt(s, i, cap) THEN {NoError, LayerErr(cap, i)} ELSE {NoError}

\* Flush: one round of its loop, then return firstErr.
MuFlushRound(t) ==
    LET l == th[t] IN
    /\ l.pc = "flush" /\ l.op = "Flush"
    /\ \E err \in RoundErrs(sw.writers, l.i, "Flush") :
        th' = [th EXCEPT ![t] =
                 LoopRound(l, sw.writers, "Flush",
                           ImplAt(sw.writers, l.i, "Flush"), err, "unlock")]
    /\ UNCHANGED <<sw, mr, last, mu, resets, closes, inner, bw, tee>>

\* StackWriter.Close: one round of its loop, then m.writers = nil.
MuCloseRound(t) ==
    LET l == th[t] IN
    /\ l.pc = "close" /\ l.op = "Close"
    /\ \E err \in RoundErrs(sw.writers, l.i, "Close") :
        th' = [th EXCEPT ![t] =
                 LoopRound(l, sw.writers, "Close",
                           ImplAt(sw.writers, l.i, "Close"), err, "clear")]
    /\ UNCHANGED <<sw, mr, last, mu, resets, closes, inner, bw, tee>>

\* FlushAndClose: one round of its flush loop, then on to its close loop.
MuFlushAndCloseFlushRound(t) ==
    LET l == th[t] IN
    /\ l.pc = "flush" /\ l.op = "FlushAndClose"
    /\ \E err \in RoundErrs(sw.writers, l.i, "Flush") :
        th' = [th EXCEPT ![t] =
                 LoopRound(l, sw.writers, "Flush",
                           ImplAt(sw.writers, l.i, "Flush"), err, "close")]
    /\ UNCHANGED <<sw, mr, last, mu, resets, closes, inner, bw, tee>>

\* FlushAndClose: one round of its close loop, then m.writers = nil.
MuFlushAndCloseCloseRound(t) ==
    LET l == th[t] IN
    /\ l.pc = "close" /\ l.op = "FlushAndClose"
    /\ \E err \in RoundErrs(sw.writers, l.i, "Close") :
        th' = [th EXCEPT ![t] =
                 LoopRound(l, sw.writers, "Close",
                           ImplAt(sw.writers, l.i, "Close"), err, "clear")]
    /\ UNCHANGED <<sw, mr, last, mu, resets, closes, inner, bw, tee>>

\* Close / FlushAndClose: m.writers = nil; return firstErr
MuClearWriters(t) ==
    LET l == th[t] IN
    /\ l.pc = "clear" /\ l.op \in {"Close", "FlushAndClose"}
    /\ sw' = [sw EXCEPT !.writers = ClosedWriters(@)]
    /\ th' = [th EXCEPT ![t] = [l EXCEPT !.pc = "unlock", !.ret = l.firstErr]]
    /\ UNCHANGED <<mr, last, mu, resets, closes, inner, bw, tee>>

\* Bug variant of MuAddReaderReset: the return on a Reset error skips the
\* Unlock.
MuAddReaderResetNoUnlock(t) ==
    LET l == th[t] IN
    /\ l.pc = "reset" /\ l.op = "AddReader"
    /\ IF Len(mr.readers) = 0
       THEN th' = [th EXCEPT ![t] = Panicked(l)]
       ELSE \E resetErr \in {NoError, ErrLayerReset} :
            LET c == Call("Reset", -1, l.arg,
                          At(mr.readers, Len(mr.readers) - 1), resetErr) IN
            th' = [th EXCEPT ![t] =
                     IF resetErr # NoError
                     THEN [l EXCEPT !.pc = "done", !.ret = resetErr,
                                    !.calls = <<c>>]
                     ELSE [l EXCEPT !.pc = "append", !.calls = <<c>>]]
    /\ UNCHANGED <<sw, mr, last, mu, resets, closes, inner, bw, tee>>

\* AddReader: prev := m.readers[len(m.readers)-1]; r.Reset(prev), returning
\* its error if it has one.
MuAddReaderReset(t) ==
    LET l == th[t] IN
    /\ l.pc = "reset" /\ l.op = "AddReader"
    /\ IF Len(mr.readers) = 0
       THEN th' = [th EXCEPT ![t] = Panicked(l)]
       ELSE \E resetErr \in {NoError, ErrLayerReset} :
            LET c == Call("Reset", -1, l.arg,
                          At(mr.readers, Len(mr.readers) - 1), resetErr) IN
            th' = [th EXCEPT ![t] =
                     IF resetErr # NoError
                     THEN [l EXCEPT !.pc = "unlock", !.ret = resetErr,
                                    !.calls = <<c>>]
                     ELSE [l EXCEPT !.pc = "append", !.calls = <<c>>]]
    /\ UNCHANGED <<sw, mr, last, mu, resets, closes, inner, bw, tee>>

\* AddReader: m.readers = append(m.readers, r); return nil
MuAddReaderAppend(t) ==
    LET l == th[t] IN
    /\ l.pc = "append" /\ l.op = "AddReader"
    /\ mr' = [mr EXCEPT !.readers = Append(@, l.arg)]
    /\ th' = [th EXCEPT ![t] = [l EXCEPT !.pc = "unlock", !.ret = NoError]]
    /\ UNCHANGED <<sw, last, mu, resets, closes, inner, bw, tee>>

\* Read: the length check and the call on the top layer.
MuRead(t) ==
    LET l == th[t] IN
    /\ l.pc = "read"
    /\ \E n \in 0..Len(l.arg.p) : \E err \in {NoError, EOF, ErrLayerRead} :
        /\ LET r == ReadResult(mr.readers, l.arg.p, n, err) IN
           th' = [th EXCEPT ![t] = [l EXCEPT !.pc = "unlock",
                                             !.n = r.ret[1],
                                             !.ret = r.ret[2],
                                             !.calls = r.calls]]
    /\ UNCHANGED <<sw, mr, last, mu, resets, closes, inner, bw, tee>>

\* MultiReader.Close: one round of its loop, then m.readers = nil.
MuReaderCloseRound(t) ==
    LET l == th[t] IN
    /\ l.pc = "close" /\ l.op = "ReaderClose"
    /\ \E err \in RoundErrs(mr.readers, l.i, "Close") :
        th' = [th EXCEPT ![t] =
                 LoopRound(l, mr.readers, "Close",
                           ImplAt(mr.readers, l.i, "Close"), err, "clear")]
    /\ UNCHANGED <<sw, mr, last, mu, resets, closes, inner, bw, tee>>

\* MultiReader.Close: m.readers = nil; return firstErr
MuClearReaders(t) ==
    LET l == th[t] IN
    /\ l.pc = "clear" /\ l.op = "ReaderClose"
    /\ mr' = [mr EXCEPT !.readers = ClosedReaders(@)]
    /\ th' = [th EXCEPT ![t] = [l EXCEPT !.pc = "unlock", !.ret = l.firstErr]]
    /\ UNCHANGED <<sw, last, mu, resets, closes, inner, bw, tee>>

\* defer m.mu.Unlock(): runs as the method returns th[t].ret or panics, and
\* the goroutine is back in its caller.
MuUnlock(t) ==
    /\ th[t].pc = "unlock"
    /\ mu' = 0
    /\ th' = [th EXCEPT ![t] = Idle]
    /\ UNCHANGED <<sw, mr, last, resets, closes, inner, bw, tee>>

\* AddWriter / AddReader return the nil-layer error without having locked.
MuReturn(t) ==
    /\ th[t].pc = "done"
    /\ th' = [th EXCEPT ![t] = Idle]
    /\ UNCHANGED <<sw, mr, last, mu, resets, closes, inner, bw, tee>>

NextMu ==
    \E t \in Threads :
        \/ MuCall(t)
        \/ MuLock(t)
        \/ MuAddWriterReset(t)
        \/ MuAddWriterAppend(t)
        \/ MuWrite(t)
        \/ MuFlushRound(t)
        \/ MuCloseRound(t)
        \/ MuFlushAndCloseFlushRound(t)
        \/ MuFlushAndCloseCloseRound(t)
        \/ MuClearWriters(t)
        \/ MuAddReaderReset(t)
        \/ MuAddReaderAppend(t)
        \/ MuRead(t)
        \/ MuReaderCloseRound(t)
        \/ MuClearReaders(t)
        \/ MuUnlock(t)
        \/ MuReturn(t)

SpecMu == InitMu /\ [][NextMu]_vars

\* A statement of goroutine t other than m.mu.Lock(): nothing but the
\* scheduler can hold it up.
MuRun(t) ==
    \/ MuAddWriterReset(t)
    \/ MuAddWriterAppend(t)
    \/ MuWrite(t)
    \/ MuFlushRound(t)
    \/ MuCloseRound(t)
    \/ MuFlushAndCloseFlushRound(t)
    \/ MuFlushAndCloseCloseRound(t)
    \/ MuClearWriters(t)
    \/ MuAddReaderReset(t)
    \/ MuAddReaderAppend(t)
    \/ MuRead(t)
    \/ MuReaderCloseRound(t)
    \/ MuClearReaders(t)
    \/ MuUnlock(t)
    \/ MuReturn(t)

\* SpecMuFair: SpecMu under the Go scheduler, which runs every runnable
\* goroutine (weak fairness of the statements that cannot block), and under
\* sync.Mutex, whose starvation mode hands the mutex to a goroutine that has
\* waited in Lock (strong fairness of MuLock).  Layer calls return: they are
\* part of the statements.
\* Every statement moves the mutex, a program counter or a loop index: where
\* the goroutines are.
where == <<mu, [t \in Threads |-> <<th[t].pc, th[t].i>>]>>

FairMu ==
    \A t \in Threads : WF_where(MuRun(t)) /\ SF_where(MuLock(t))

SpecMuFair == InitMu /\ [][NextMu]_vars /\ FairMu

\* ------------------------------------------------------------ re-entrancy
\* SpecRe: as SpecMu, and a layer method that the stack calls while holding
\* the mutex may itself call a method of the same stack, on the same
\* goroutine.  inner[t] is that nested call; the outer method goes on only
\* when the layer method, and so the nested call, has returned.

\* Whether the next statement of the method with locals l calls a layer.
CallsLayer(l) ==
    CASE l.pc \in {"reset", "write", "read"} -> Len(Layers) > 0
      [] l.pc = "flush" -> ImplAt(Layers, l.i, "Flush")
      [] l.pc = "close" -> ImplAt(Layers, l.i, "Close")
      [] OTHER -> FALSE

\* The layer method called by goroutine t's outer method calls method op of
\* the same stack.  AddWriter / AddReader with a nil layer return their error
\* before m.mu.Lock(); every other call goes to m.mu.Lock() first.
ReEnter(t) ==
    /\ mu = t
    /\ inner[t].pc = "none"
    /\ CallsLayer(th[t])
    /\ \E op \in (IF sw # Nil THEN WriterOps ELSE ReaderOps) :
       \E arg \in ArgsOf(op) :
        inner' = [inner EXCEPT ![t] =
                    IF op \in {"AddWriter", "AddReader"} /\ arg = Nil
                    THEN [pc |-> "done", op |-> op, arg |-> arg,
                          ret |-> IF op = "AddWriter" THEN ErrWriterNil
                                  ELSE ErrReaderNil]
                    ELSE [pc |-> "lock", op |-> op, arg |-> arg,
                          ret |-> NoError]]
    /\ UNCHANGED <<sw, mr, last, mu, th, resets, closes, bw, tee>>

\* Bug variant of ReLock: the mutex lets its holder lock it again.
ReLockReentrant(t) ==
    IF inner[t].pc = "lock"
    THEN /\ mu \in {0, t}
         /\ mu' = t
         /\ inner' = [inner EXCEPT ![t] = [@ EXCEPT !.pc = "body"]]
         /\ UNCHANGED <<sw, mr, last, th, resets, closes, bw, tee>>
    ELSE MuLock(t)

\* m.mu.Lock() of the method on top of goroutine t's call stack: sync.Mutex
\* keeps no owner, so the nested call waits like any other caller.
ReLock(t) ==
    IF inner[t].pc = "lock"
    THEN /\ mu = 0
         /\ mu' = t
         /\ inner' = [inner EXCEPT ![t] = [@ EXCEPT !.pc = "body"]]
         /\ UNCHANGED <<sw, mr, last, th, resets, closes, bw, tee>>
    ELSE MuLock(t)

\* The nested call returns to the layer method that made it.
ReInnerReturn(t) ==
    /\ inner[t].pc = "done"
    /\ inner' = [inner EXCEPT ![t] = NoCall]
    /\ UNCHANGED <<sw, mr, last, mu, th, resets, closes, bw, tee>>

\* The outer method of goroutine t runs its next statement: only when no
\* call of its layer method is still open.
ReOuterStep(t) ==
    /\ inner[t].pc = "none"
    /\ \/ MuAddWriterReset(t)
       \/ MuAddWriterAppend(t)
       \/ MuWrite(t)
       \/ MuFlushRound(t)
       \/ MuCloseRound(t)
       \/ MuFlushAndCloseFlushRound(t)
       \/ MuFlushAndCloseCloseRound(t)
       \/ MuClearWriters(t)
       \/ MuAddReaderReset(t)
       \/ MuAddReaderAppend(t)
       \/ MuRead(t)
       \/ MuReaderCloseRound(t)
       \/ MuClearReaders(t)
       \/ MuUnlock(t)
       \/ MuReturn(t)

NextRe ==
    \E t \in Threads :
        \/ MuCall(t)
        \/ ReLock(t)
        \/ ReEnter(t)
        \/ ReInnerReturn(t)
        \/ ReOuterStep(t)

SpecRe == InitMu /\ [][NextRe]_vars

\* ------------------------------------------------------- buffering layers
\* SpecBuf: a StackWriter whose base is an in-memory sink (no Flush, no
\* Close) and whose layers buffer: a layer holds the bytes written to it and
\* forwards them to the writer it was Reset to, its predecessor, when its
\* buffer fills or its Flush is called.  bw.data[k + 1] is what the writer
\* at index k holds: the bytes received so far for the sink, the buffer for
\* a layer.  No layer call fails.

\* Bytes a buffering layer holds before it forwards.
BufCap == 4

Sink == [flusher |-> FALSE, closer |-> FALSE]
BufLayer == [flusher |-> TRUE, closer |-> TRUE]

\* The buffers a caller can pass to Write.
WriteBufs == UNION {[1 .. n -> Byte] : n \in 1 .. MaxWriteLen}

\* Write(p) on the writer at index k.
RECURSIVE LayerWrite(_, _, _)
LayerWrite(data, k, p) ==
    IF k = 0
    THEN [data EXCEPT ![1] = @ \o p]
    ELSE LET buf == data[k + 1] \o p IN
         IF Len(buf) >= BufCap
         THEN LayerWrite([data EXCEPT ![k + 1] = <<>>], k - 1, buf)
         ELSE [data EXCEPT ![k + 1] = buf]

\* Flush() on the layer at index k: its buffer goes to its predecessor.
LayerFlush(data, k) ==
    IF k = 0 THEN data
    ELSE LayerWrite([data EXCEPT ![k + 1] = <<>>], k - 1, data[k + 1])

\* Close() on the layer at index k: the layer releases its buffer.
LayerClose(data, k) ==
    IF k = 0 THEN data ELSE [data EXCEPT ![k + 1] = <<>>]

\* The effect of one call of the stack on the layers; snap keeps the data
\* as it was when the first Close of the operation was called.
ApplyCall(st, c) ==
    CASE c.fn = "Write" -> [st EXCEPT !.data = LayerWrite(@, c.idx, c.arg)]
      [] c.fn = "Flush" -> [st EXCEPT !.data = LayerFlush(@, c.idx)]
      [] c.fn = "Close" ->
            [st EXCEPT !.data = LayerClose(@, c.idx),
                       !.snap = IF @ = <<>> THEN st.data ELSE @]
      [] OTHER -> st

RECURSIVE ApplyCalls(_, _)
ApplyCalls(st, calls) ==
    IF calls = <<>> THEN st
    ELSE ApplyCalls(ApplyCall(st, Head(calls)), Tail(calls))

\* The layers as an operation finds them: pre is the data before it.
Before(st) == [st EXCEPT !.pre = st.data, !.snap = <<>>]

InitBuf ==
    /\ sw = NewStackWriterResult(Sink).stack
    /\ mr = Nil
    /\ last = NoOp
    /\ mu = 0
    /\ th = [t \in Threads |-> Idle]
    /\ resets = <<>>
    /\ closes = <<>>
    /\ inner = [t \in Threads |-> NoCall]
    /\ bw = [data |-> << <<>> >>, pre |-> << <<>> >>, snap |-> <<>>,
             written |-> <<>>]
    /\ tee = Nil

\* AddWriter(w) with a buffering layer, whose buffer is empty.
BufAddWriter ==
    /\ Len(sw.writers) < MaxDepth
    /\ LET r == AddWriterResult(sw.writers, BufLayer) IN
        /\ sw' = [sw EXCEPT !.writers = r.writers]
        /\ last' = Done("AddWriter", BufLayer, sw.writers, r.ret, r.calls)
        /\ bw' = IF r.ret = NoError
                 THEN [Before(bw) EXCEPT !.data = Append(@, <<>>)]
                 ELSE Before(bw)
    /\ UNCHANGED <<mr, mu, th, resets, closes, inner, tee>>

\* Write(p): the top layer takes all of p.
BufWrite ==
    /\ \E p \in WriteBufs :
        /\ Len(bw.written) + Len(p) <= MaxWritten
        /\ LET r == WriteResult(sw.writers, p, Len(p), NoError) IN
            /\ last' = Done("Write", p, sw.writers, r.ret, r.calls)
            /\ bw' = [ApplyCalls(Before(bw), r.calls) EXCEPT
                        !.written = IF r.ret[2] = NoError THEN @ \o p ELSE @]
    /\ UNCHANGED <<sw, mr, mu, th, resets, closes, inner, tee>>

BufFlush ==
    /\ LET r == FlushLoop(sw.writers, {}, Len(sw.writers) - 1, NoError, <<>>) IN
        /\ last' = Done("Flush", Nil, sw.writers, r.firstErr, r.calls)
        /\ bw' = ApplyCalls(Before(bw), r.calls)
    /\ UNCHANGED <<sw, mr, mu, th, resets, closes, inner, tee>>

BufClose ==
    /\ LET r == CloseLoop(sw.writers, {}, Len(sw.writers) - 1, NoError, <<>>) IN
        /\ sw' = [sw EXCEPT !.writers = ClosedWriters(sw.writers)]
        /\ last' = Done("Close", Nil, sw.writers, r.firstErr, r.calls)
        /\ bw' = ApplyCalls(Before(bw), r.calls)
    /\ UNCHANGED <<mr, mu, th, resets, closes, inner, tee>>

BufFlushAndClose ==
    /\ LET r == FlushAndCloseResult(sw.writers, {}, {}) IN
        /\ sw' = [sw EXCEPT !.writers = r.writers]
        /\ last' = Done("FlushAndClose", Nil, sw.writers, r.ret, r.calls)
        /\ bw' = ApplyCalls(Before(bw), r.calls)
    /\ UNCHANGED <<mr, mu, th, resets, closes, inner, tee>>

NextBuf ==
    \/ BufAddWriter
    \/ BufWrite
    \/ BufFlush
    \/ BufClose
    \/ BufFlushAndClose

SpecBuf == InitBuf /\ [][NextBuf]_vars

\* ---------------------------------------------------------- ReaderToWriter
\* SpecTee: one *ReaderToWriter, its source reader and its target writer.
\* tee is Nil before NewReaderToWriter, else the struct (src, target) with
\* the caller's buffer after the last Read (buf), the bytes offered to the
\* target and the bytes returned to the caller so far, and the objects that
\* had Close called on them.

\* What a Read through a nil source ends in.
PanicNilDeref ==
    "panic: runtime error: invalid memory address or nil pointer dereference"

\* Targets and sources: whether the dynamic type is an io.Closer.
TeeTargets == {[name |-> "target", closer |-> c] : c \in BOOLEAN}
TeeSources == {[name |-> "file", closer |-> TRUE],
               [name |-> "bytes", closer |-> FALSE]}

\* The caller's buffers, fresh from make([]byte, n), and what a source can
\* put into one.
TeeBufs == {[k \in 1 .. n |-> 0] : n \in 0 .. MaxTeeBuf}
ReadInto(p) == UNION {[1 .. n -> Byte] : n \in 0 .. Len(p)}

\* NewReaderToWriter(w): &ReaderToWriter{target: w}
NewReaderToWriterResult(w) ==
    [src |-> Nil, target |-> w, buf |-> <<>>, offered |-> <<>>,
     returned |-> <<>>, closed |-> {}]

\* Bug variant of TeeReadResult: the whole buffer p goes to the target, not
\* p[:n].
TeeReadResultWholeBuffer(r, p, d, err, wErr) ==
    IF r.src = Nil
    THEN [buf |-> p, ret |-> <<0, PanicNilDeref>>, calls |-> <<>>]
    ELSE LET n == Len(d)
             q == d \o SubSeq(p, n + 1, Len(p))
             rd == Call("Read", 0, r.src, p, <<n, err>>)
         IN [buf |-> q,
             ret |-> <<n, err>>,
             calls |-> IF n > 0
                       THEN <<rd, Call("Write", 0, r.target, q,
                                       <<IF wErr = NoError THEN Len(q) ELSE 0,
                                         wErr>>)>>
                       ELSE <<rd>>]

\* Read(p) when r.src.Read(p) puts the bytes d into p and returns
\* (Len(d), err), and r.target.Write would return the error wErr:
\* n, err := r.src.Read(p); if n > 0 { _, _ = r.target.Write(p[:n]) };
\* return n, err
TeeReadResult(r, p, d, err, wErr) ==
    IF r.src = Nil
    THEN [buf |-> p, ret |-> <<0, PanicNilDeref>>, calls |-> <<>>]
    ELSE LET n == Len(d)
             q == d \o SubSeq(p, n + 1, Len(p))
             rd == Call("Read", 0, r.src, p, <<n, err>>)
         IN [buf |-> q,
             ret |-> <<n, err>>,
             calls |-> IF n > 0
                       THEN <<rd, Call("Write", 0, r.target, SubSeq(q, 1, n),
                                       <<IF wErr = NoError THEN n ELSE 0,
                                         wErr>>)>>
                       ELSE <<rd>>]

\* The bytes of the Write calls among calls, in call order.
RECURSIVE Offered(_)
Offered(calls) ==
    IF calls = <<>> THEN <<>>
    ELSE (IF Head(calls).fn = "Write" THEN Head(calls).arg ELSE <<>>)
         \o Offered(Tail(calls))

\* Close() when the target's Close would return err: the target is closed
\* if it is an io.Closer.
TeeCloseResult(r, err) ==
    IF r.target.closer
    THEN [ret |-> err, calls |-> <<Call("Close", 0, r.target, Nil, err)>>]
    ELSE [ret |-> NoError, calls |-> <<>>]

NewReaderToWriter ==
    /\ tee = Nil
    /\ \E w \in TeeTargets :
        /\ tee' = NewReaderToWriterResult(w)
        /\ last' = Done("NewReaderToWriter", w, <<>>, NoError, <<>>)
    /\ UNCHANGED <<sw, mr, mu, th, resets, closes, inner, bw>>

\* Reset(src): r.src = src; return nil
TeeReset ==
    /\ tee # Nil
    /\ \E src \in TeeSources :
        /\ tee' = [tee EXCEPT !.src = src]
        /\ last' = Done("TeeReset", src, <<>>, NoError, <<>>)
    /\ UNCHANGED <<sw, mr, mu, th, resets, closes, inner, bw>>

TeeRead ==
    /\ tee # Nil
    /\ \E p \in TeeBufs : \E d \in ReadInto(p) :
       \E err \in {NoError, EOF} :
       \E wErr \in {NoError, ErrLayerWrite} :
        /\ Len(tee.returned) + Len(d) <= MaxTeeBytes
        /\ LET r == TeeReadResult(tee, p, d, err, wErr) IN
            /\ tee' = [tee EXCEPT
                         !.buf = r.buf,
                         !.offered = @ \o Offered(r.calls),
                         !.returned = @ \o SubSeq(r.buf, 1, r.ret[1])]
            /\ last' = Done("TeeRead", p, <<>>, r.ret, r.calls)
    /\ UNCHANGED <<sw, mr, mu, th, resets, closes, inner, bw>>

TeeClose ==
    /\ tee # Nil
    /\ \E err \in {NoError, LayerErr("Close", 0)} :
        LET r == TeeCloseResult(tee, err) IN
        /\ tee' = [tee EXCEPT
                     !.closed = @ \cup {r.calls[j].layer : j \in DOMAIN r.calls}]
        /\ last' = Done("TeeClose", Nil, <<>>, r.ret, r.calls)
    /\ UNCHANGED <<sw, mr, mu, th, resets, closes, inner, bw>>

NextTee ==
    \/ NewReaderToWriter
    \/ TeeReset
    \/ TeeRead
    \/ TeeClose

SpecTee == Init /\ [][NextTee]_vars

\* ------------------------------------------------ reading the call log

\* The positions of the log c at which method fn was called.
CallsOf(c, fn) == {j \in DOMAIN c : c[j].fn = fn}

\* The slice indices on which fn was called, and how many calls there were.
IdxOf(c, fn) == {c[j].idx : j \in CallsOf(c, fn)}

\* The calls of fn visit strictly decreasing slice indices (top to base).
TopToBase(c, fn) ==
    \A j, k \in CallsOf(c, fn) : j < k => c[j].idx > c[k].idx

\* Every call of the log went to the layer that pre holds at the call's index.
OnLayersOf(c, pre) ==
    \A j \in DOMAIN c :
        /\ c[j].idx \in Indices(pre)
        /\ c[j].layer = At(pre, c[j].idx)

\* The calls of fn are exactly one call per index of want, top to base.
ExactlyOnceEach(c, fn, want) ==
    /\ IdxOf(c, fn) = want
    /\ Cardinality(CallsOf(c, fn)) = Cardinality(want)
    /\ TopToBase(c, fn)

\* The error of the failing call of fn on the highest slice index, NoError
\* when no call of fn failed.
TopmostError(c, fn) ==
    LET failing == {j \in CallsOf(c, fn) : c[j].ret # NoError} IN
    IF failing = {}
    THEN NoError
    ELSE LET j == CHOOSE x \in failing :
                      \A y \in failing : c[x].idx >= c[y].idx
         IN c[j].ret

FailingCalls(c, fn) == {j \in CallsOf(c, fn) : c[j].ret # NoError}

\* ------------------------------------------------------------- claims

\* C1: one FlushAndClose calls Flush on every layer implementing Flusher
\* before it calls Close on any layer implementing io.Closer, and each of the
\* two phases visits the layers from top (last added) to base (index 0).
C1_FlushBeforeClose ==
    last.op = "FlushAndClose" =>
        /\ \A j \in CallsOf(last.calls, "Close"),
              k \in CallsOf(last.calls, "Flush") : k < j
        /\ ExactlyOnceEach(last.calls, "Flush", FlusherIdx(last.pre))
        /\ ExactlyOnceEach(last.calls, "Close", CloserIdx(last.pre))
        /\ OnLayersOf(last.calls, last.pre)
        /\ \A j \in DOMAIN last.calls : last.calls[j].fn \in {"Flush", "Close"}

C1_Witness ==
    /\ last.op = "FlushAndClose"
    /\ Cardinality(CallsOf(last.calls, "Flush")) >= 2
    /\ Cardinality(CallsOf(last.calls, "Close")) >= 2
    /\ \E i \in Indices(last.pre) :
        At(last.pre, i).flusher /\ At(last.pre, i).closer

\* C2: StackWriter.Flush, StackWriter.Close and MultiReader.Close call the
\* capability on exactly the layers that implement it, once each, in strictly
\* decreasing index order; a layer that does not implement it is not called
\* and the error returned, if any, is one a called layer returned.
SweepFn == [Flush |-> "Flush", Close |-> "Close", ReaderClose |-> "Close"]

SweepWant(op, pre) ==
    IF op = "Flush" THEN FlusherIdx(pre) ELSE CloserIdx(pre)

C2_ExactlyImplementersTopToBase ==
    last.op \in {"Flush", "Close", "ReaderClose"} =>
        /\ ExactlyOnceEach(last.calls, SweepFn[last.op],
                           SweepWant(last.op, last.pre))
        /\ Len(last.calls) = Cardinality(SweepWant(last.op, last.pre))
        /\ OnLayersOf(last.calls, last.pre)
        /\ last.ret # NoError =>
               \E j \in DOMAIN last.calls : last.calls[j].ret = last.ret

C2_Witness ==
    /\ last.op \in {"Flush", "Close", "ReaderClose"}
    /\ Len(last.pre) = 3
    /\ IdxOf(last.calls, SweepFn[last.op]) = {0, 2}
    /\ last.ret = NoError

\* C3: a failing layer never cuts a Flush or Close sweep short: every
\* implementing layer is still called, and the sweep returns the error of the
\* topmost failing layer (NoError when none fails).
C3_FirstErrorWinsSweepTotal ==
    last.op \in {"Flush", "Close", "ReaderClose"} =>
        /\ IdxOf(last.calls, SweepFn[last.op]) = SweepWant(last.op, last.pre)
        /\ last.ret = TopmostError(last.calls, SweepFn[last.op])

C3_Witness ==
    /\ last.op \in {"Close", "ReaderClose"}
    /\ Cardinality(FailingCalls(last.calls, "Close")) >= 2
    /\ Len(last.calls) = 3
    /\ last.calls[1].ret = NoError
    /\ last.ret = last.calls[2].ret

\* C4: once a Close or FlushAndClose has returned (with or without error)
\* the slice is empty, it stays empty under every later operation, a Write
\* on it returns (0, io.ErrClosedPipe) and a Read returns (0, io.EOF), and
\* neither calls a layer.
TornDown(op) == op \in {"Close", "FlushAndClose", "ReaderClose"}

C4_ClosedStaysClosed ==
    /\ TornDown(last.op) => (Constructed /\ Layers = <<>>)
    /\ (last.op \notin {"none", "NewStackWriter", "NewReader"}
            /\ last.pre = <<>>) =>
           /\ Layers = <<>>
           /\ last.calls = <<>>
           /\ last.op = "Write" => last.ret = <<0, ErrClosedPipe>>
           /\ last.op = "Read" => last.ret = <<0, EOF>>

C4_Witness ==
    /\ last.op \in {"Write", "Read"}
    /\ last.pre = <<>>
    /\ Constructed

\* C5: FlushAndClose returns the error of the topmost failing Flush if any
\* Flush fails, else the error of the topmost failing Close, else NoError;
\* all flushes and all closes are called whatever fails and the slice is
\* cleared at the end.
C5_FlushAndCloseFirstError ==
    last.op = "FlushAndClose" =>
        /\ last.ret =
             IF FailingCalls(last.calls, "Flush") # {}
             THEN TopmostError(last.calls, "Flush")
             ELSE TopmostError(last.calls, "Close")
        /\ IdxOf(last.calls, "Flush") = FlusherIdx(last.pre)
        /\ IdxOf(last.calls, "Close") = CloserIdx(last.pre)
        /\ sw.writers = <<>>

C5_Witness ==
    /\ last.op = "FlushAndClose"
    /\ Cardinality(FailingCalls(last.calls, "Flush")) >= 2
    /\ FailingCalls(last.calls, "Close") # {}
    /\ \E j \in FailingCalls(last.calls, "Close") :
         \A k \in FailingCalls(last.calls, "Flush") :
             last.calls[j].idx > last.calls[k].idx

\* C6: on an open stack a Write (Read) calls Write (Read) on exactly one
\* layer, the top of the slice, with the caller's buffer, and returns what
\* that call returned; the top is the base right after construction and the
\* layer of the latest successful AddWriter (AddReader) after that.
C6_TopLayerOnly ==
    /\ (last.op \in {"Write", "Read"} /\ last.pre # <<>>) =>
           /\ Len(last.calls) = 1
           /\ last.calls[1].fn = last.op
           /\ last.calls[1].idx = Len(last.pre) - 1
           /\ last.calls[1].layer = At(last.pre, Len(last.pre) - 1)
           /\ last.calls[1].arg = last.arg
           /\ last.ret = last.calls[1].ret
           /\ Layers = last.pre
    /\ (last.op \in {"NewStackWriter", "NewReader"}
            /\ last.ret.err = NoError) =>
           Layers = <<last.arg>>
    /\ (last.op \in {"AddWriter", "AddReader"} /\ last.ret = NoError) =>
           /\ Layers = Append(last.pre, last.arg)
           /\ At(Layers, Len(Layers) - 1) = last.arg

C6_Witness ==
    /\ last.op \in {"Write", "Read"}
    /\ Len(last.pre) = 3
    /\ At(last.pre, 2) # At(last.pre, 1)
    /\ At(last.pre, 2) # At(last.pre, 0)
    /\ last.ret[1] = 1

\* C7: a successful AddWriter / AddReader calls Reset exactly once, on the
\* layer being added, with the layer that was top before the call as
\* argument, and calls nothing else; no other operation calls Reset; so over
\* the whole history the successful Reset calls are, in order, one per
\* attached layer, each with its predecessor in the slice as argument.
C7_ResetOnceAtAttach ==
    /\ (last.op \in {"AddWriter", "AddReader"} /\ last.ret = NoError) =>
           /\ Len(last.calls) = 1
           /\ last.calls[1].fn = "Reset"
           /\ last.calls[1].layer = last.arg
           /\ last.calls[1].arg = At(last.pre, Len(last.pre) - 1)
           /\ last.calls[1].idx = -1
    /\ last.op \notin {"AddWriter", "AddReader"} =>
           CallsOf(last.calls, "Reset") = {}
    /\ Layers # <<>> =>
           /\ Len(resets) = Len(Layers) - 1
           /\ \A k \in 1 .. Len(resets) :
                  /\ resets[k].layer = At(Layers, k)
                  /\ resets[k].arg = At(Layers, k - 1)

C7_Witness ==
    /\ last.op \in {"AddWriter", "AddReader"}
    /\ last.ret = NoError
    /\ Len(last.pre) = 2
    /\ last.arg # At(last.pre, 1)
    /\ At(last.pre, 0) # At(last.pre, 1)

\* C8: when r.Reset(currentTop) returns an error, AddReader returns that
\* error, does not append r, and leaves the slice as it was.
ResetFailed ==
    /\ last.op = "AddReader"
    /\ last.calls # <<>>
    /\ last.calls[1].ret # NoError

C8_FailedResetNoAttach ==
    ResetFailed =>
        /\ last.ret = last.calls[1].ret
        /\ mr.readers = last.pre
        /\ last.calls[1].arg = At(last.pre, Len(last.pre) - 1)

C8_Witness ==
    /\ ResetFailed
    /\ Len(last.pre) = 2
    /\ last.arg # At(last.pre, 1)

\* C9: a constructor given nil returns an error and no stack; AddWriter /
\* AddReader given nil returns an error, calls no layer and leaves the slice
\* unchanged; a constructor given a non-nil base returns a stack whose slice
\* is exactly [base].
C9_NilRejected ==
    /\ last.op = "NewStackWriter" =>
           IF last.arg = Nil
           THEN last.ret.stack = Nil /\ last.ret.err = ErrBaseWriterNil
                /\ sw = Nil
           ELSE last.ret.err = NoError /\ sw = last.ret.stack
                /\ sw.writers = <<last.arg>>
    /\ last.op = "NewReader" =>
           IF last.arg = Nil
           THEN last.ret.stack = Nil /\ last.ret.err = ErrBaseReaderNil
                /\ mr = Nil
           ELSE last.ret.err = NoError /\ mr = last.ret.stack
                /\ mr.readers = <<last.arg>>
    /\ (last.op \in {"AddWriter", "AddReader"} /\ last.arg = Nil) =>
           /\ last.ret = (IF last.op = "AddWriter" THEN ErrWriterNil
                          ELSE ErrReaderNil)
           /\ last.calls = <<>>
           /\ Layers = last.pre

C9_Witness ==
    /\ last.op \in {"AddWriter", "AddReader"}
    /\ last.arg = Nil
    /\ Len(last.pre) = 2

\* C10: with several goroutines calling the methods of one stack, every
\* read or update of the slice and every layer call of a method happens while
\* that method holds m.mu, at most one method holds it at a time, the slice
\* changes under a method only by that method's own update, and what each
\* method has done when it unlocks is what the same method does run alone on
\* the slice it found when it locked.
InCS(t) == th[t].pc \in {"reset", "append", "write", "read", "flush",
                         "close", "clear", "unlock"}

\* The indices at which the logged calls of fn failed.
FailedIdx(c, fn) == {c[j].idx : j \in FailingCalls(c, fn)}

\* The slice a method leaves, run alone on pre with the results in l.
SerialSlice(l) ==
    CASE l.op = "AddWriter" -> AddWriterResult(l.pre, l.arg).writers
      [] l.op = "AddReader" ->
            AddReaderResult(l.pre, l.arg,
                IF l.calls = <<>> THEN NoError ELSE l.calls[1].ret).readers
      [] l.op = "Close" -> ClosedWriters(l.pre)
      [] l.op = "FlushAndClose" ->
            FlushAndCloseResult(l.pre, FailedIdx(l.calls, "Flush"),
                                FailedIdx(l.calls, "Close")).writers
      [] l.op = "ReaderClose" -> ClosedReaders(l.pre)
      [] OTHER -> l.pre

\* The result and the layer calls of a method run alone on pre, given what
\* the layers returned to it.
SerialOutcome(l) ==
    CASE l.op = "AddWriter" ->
            LET r == AddWriterResult(l.pre, l.arg) IN <<0, r.ret, r.calls>>
      [] l.op = "AddReader" ->
            LET r == AddReaderResult(l.pre, l.arg,
                        IF l.calls = <<>> THEN NoError ELSE l.calls[1].ret)
            IN <<0, r.ret, r.calls>>
      [] l.op = "Write" ->
            LET r == WriteResult(l.pre, l.arg.p, l.n, l.ret)
            IN <<r.ret[1], r.ret[2], r.calls>>
      [] l.op = "Read" ->
            LET r == ReadResult(l.pre, l.arg.p, l.n, l.ret)
            IN <<r.ret[1], r.ret[2], r.calls>>
      [] l.op = "Flush" ->
            LET r == FlushLoop(l.pre, FailedIdx(l.calls, "Flush"),
                               Len(l.pre) - 1, NoError, <<>>)
            IN <<0, r.firstErr, r.calls>>
      [] l.op = "Close" ->
            LET r == CloseLoop(l.pre, FailedIdx(l.calls, "Close"),
                               Len(l.pre) - 1, NoError, <<>>)
            IN <<0, r.firstErr, r.calls>>
      [] l.op = "FlushAndClose" ->
            LET r == FlushAndCloseResult(l.pre, FailedIdx(l.calls, "Flush"),
                                         FailedIdx(l.calls, "Close"))
            IN <<0, r.ret, r.calls>>
      [] l.op = "ReaderClose" ->
            LET r == ReaderCloseLoop(l.pre, FailedIdx(l.calls, "Close"),
                                     Len(l.pre) - 1, NoError, <<>>)
            IN <<0, r.firstErr, r.calls>>

C10_MutexSerializes ==
    \A t \in Threads :
        InCS(t) =>
            LET l == th[t] IN
            /\ mu = t
            /\ IF l.pc = "unlock"
               THEN /\ Layers = SerialSlice(l)
                    /\ <<l.n, l.ret, l.calls>> = SerialOutcome(l)
               ELSE Layers = l.pre

\* A sweep is under way (one layer closed, one still to close) while another
\* goroutine waits in Lock to append a layer.
C10_Witness ==
    \E t, u \in Threads :
        /\ th[t].pc = "close"
        /\ th[t].i = 0
        /\ Len(th[t].calls) >= 1
        /\ th[u].pc = "lock"
        /\ th[u].op \in {"AddWriter", "AddReader"}

\* C13: while the stack is constructed and not torn down its slice is not
\* empty and index 0 holds the base given to the constructor; AddWriter /
\* AddReader append one element or nothing, Write / Read / Flush change
\* nothing, so the slice before an operation is a prefix of the slice after
\* it; only Close and FlushAndClose shrink it, and they empty it.
IsPrefix(a, b) == Len(a) <= Len(b) /\ SubSeq(b, 1, Len(a)) = a

C13_AppendOnlyUntilTeardown ==
    /\ (Constructed /\ Layers = <<>>) =>
           (TornDown(last.op) \/ last.pre = <<>>)
    /\ (sw # Nil /\ sw.writers # <<>>) => At(sw.writers, 0) = sw.base
    /\ (last.op \in {"NewStackWriter", "NewReader"} /\ Constructed) =>
           Layers = <<last.arg>>
    /\ last.op \in {"AddWriter", "AddReader"} =>
           /\ IsPrefix(last.pre, Layers)
           /\ Len(Layers) =
                 Len(last.pre) + (IF last.ret = NoError THEN 1 ELSE 0)
    /\ last.op \in {"Write", "Read", "Flush"} => Layers = last.pre
    /\ TornDown(last.op) => Layers = <<>>

C13_Witness ==
    /\ last.op \in {"AddWriter", "AddReader"}
    /\ last.ret = NoError
    /\ Len(last.pre) = 2
    /\ At(last.pre, 0) # At(last.pre, 1)
    /\ last.arg # At(last.pre, 0)

\* C14 (as claimed): AddWriter / AddReader with a non-nil layer on a stack
\* that was torn down returns without a runtime fault, calls no Reset and
\* leaves the slice empty.
C14_AddLayerAfterTeardownNoFault ==
    (last.op \in {"AddWriter", "AddReader"} /\ last.arg # Nil
        /\ last.pre = <<>>) =>
           /\ last.ret # PanicIndex
           /\ last.calls = <<>>
           /\ Layers = <<>>

\* C16: Flush leaves the slice as it was, also when a flush failed, and
\* calls nothing but Flush; Write and Read leave the slice as it was whatever
\* the top layer returned; Close calls nothing but Close.
C16_FrameConditions ==
    /\ last.op = "Flush" =>
           /\ Layers = last.pre
           /\ \A j \in DOMAIN last.calls : last.calls[j].fn = "Flush"
    /\ last.op \in {"Write", "Read"} => Layers = last.pre
    /\ last.op \in {"Close", "ReaderClose"} =>
           \A j \in DOMAIN last.calls : last.calls[j].fn = "Close"

C16_Witness ==
    /\ last.op = "Flush"
    /\ last.ret # NoError
    /\ Len(Layers) = 3
    /\ Len(last.calls) >= 2

\* C15: when the layers of the stack are pairwise distinct, Close is called
\* on each of them at most once over the whole life of the stack; a teardown
\* or a Flush on a stack that was already torn down calls no layer and
\* returns no error.
EverAttached ==
    IF sw # Nil THEN <<sw.base>> \o [k \in 1 .. Len(resets) |-> resets[k].layer]
    ELSE IF resets = <<>> THEN Layers
    ELSE <<resets[1].arg>> \o [k \in 1 .. Len(resets) |-> resets[k].layer]

PairwiseDistinct(s) ==
    \A j, k \in DOMAIN s : j # k => s[j] # s[k]

CloseCount(l) == Cardinality({k \in DOMAIN closes : closes[k] = l})

C15_TeardownIdempotent ==
    /\ PairwiseDistinct(EverAttached) => \A l \in Layer : CloseCount(l) <= 1
    /\ ((TornDown(last.op) \/ last.op = "Flush") /\ last.pre = <<>>) =>
           /\ last.calls = <<>>
           /\ last.ret = NoError
           /\ Layers = <<>>

C15_Witness ==
    /\ TornDown(last.op)
    /\ last.pre = <<>>
    /\ Len(closes) = 2
    /\ Len(EverAttached) = 3
    /\ PairwiseDistinct(EverAttached)

\* C12 (as claimed): whatever method of the same stack a layer method calls
\* while the stack is calling it, the nested call never returns and the
\* outer method never moves on.
C12_AnyNestedCallBlocks ==
    [][\A t \in Threads :
          inner[t].pc # "none" =>
              (inner'[t] = inner[t] /\ th'[t] = th[t] /\ mu' = t)]_vars

\* C12 (amended): a nested call that reaches m.mu.Lock(), that is every
\* nested call but AddWriter / AddReader with a nil layer, finds the mutex
\* held by its own goroutine and waits there forever: the nested call, the
\* outer method and the mutex never change again.
C12_NestedLockBlocksForever ==
    [][\A t \in Threads :
          inner[t].pc = "lock" =>
              /\ mu = t
              /\ InCS(t)
              /\ inner'[t] = inner[t]
              /\ th'[t] = th[t]
              /\ mu' = t]_vars

C12_Witness ==
    \E t, u \in Threads :
        /\ t # u
        /\ inner[t].pc = "lock"
        /\ inner[t].op \in {"Write", "Read"}
        /\ th[t].op \in {"Flush", "ReaderClose"}
        /\ th[u].pc = "lock"

\* C17: a goroutine that is not inside a method, or still waits in Lock, or
\* returns without having locked, does not hold the mutex; and every method
\* call, on an open or on a closed stack, whatever its layers return, leads
\* to the goroutine being back in its caller with the mutex not held by it,
\* so every other goroutine's pending call gets the mutex and returns too.
C17_EveryCallReturnsUnlocked ==
    /\ [](\A t \in Threads : th[t].pc \in {"idle", "lock", "done"} => mu # t)
    /\ \A t \in Threads :
          (th[t].pc # "idle") ~> (th[t].pc = "idle" /\ mu # t)

C17_Witness ==
    \E t, u \in Threads :
        /\ t # u
        /\ th[t].op = "AddReader"
        /\ th[t].pc = "unlock"
        /\ th[t].ret = ErrLayerReset
        /\ mu = t
        /\ th[u].pc = "lock"

\* C11: on an open stack of buffering layers, after a Flush in which no
\* layer failed every buffer is empty and the sink holds exactly the bytes
\* written, in the order written; in FlushAndClose this is so when the first
\* Close is called.  A Write that does not fill the top buffer leaves every
\* writer below it as it was (one layer of 4 bytes over the sink: after
\* Write of 3 bytes the sink has 0 bytes, after Flush it has 3); Close calls
\* Close once on each layer and nothing on the sink, which keeps its bytes.
AllFlushed(data) ==
    /\ data[1] = bw.written
    /\ \A k \in 2 .. Len(data) : data[k] = <<>>

C11_FlushEmptiesBuffersIntoBase ==
    /\ (last.op = "Flush" /\ last.pre # <<>> /\ last.ret = NoError) =>
           AllFlushed(bw.data)
    /\ (last.op = "FlushAndClose" /\ last.pre # <<>> /\ last.ret = NoError) =>
           /\ Len(last.pre) > 1 => (bw.snap # <<>> /\ AllFlushed(bw.snap))
           /\ AllFlushed(bw.data)
    /\ (last.op = "Write" /\ last.pre # <<>>
          /\ Len(bw.pre[Len(bw.pre)]) + Len(last.arg) < BufCap
          /\ Len(bw.pre) > 1) =>
           \A k \in 1 .. Len(bw.pre) - 1 : bw.data[k] = bw.pre[k]
    /\ (last.op = "Close" /\ last.pre # <<>>) =>
           /\ bw.data[1] = bw.pre[1]
           /\ [j \in 1 .. Len(last.calls) |-> last.calls[j].idx] =
                 [k \in 1 .. Len(last.pre) - 1 |-> Len(last.pre) - k]
           /\ \A j \in DOMAIN last.calls : last.calls[j].fn = "Close"

\* Two buffering layers hold bytes and a Flush brings all of them, more than
\* one buffer's worth, to the sink in the order written.
C11_Witness ==
    /\ last.op = "Flush"
    /\ Len(last.pre) = 3
    /\ bw.pre[2] # <<>>
    /\ bw.pre[3] # <<>>
    /\ bw.pre[1] = <<>>
    /\ bw.data[1] = bw.written
    /\ Len(bw.written) = MaxWritten
    /\ bw.written[1] # bw.written[2]

\* C18: once a source is set, Read returns exactly what the source's Read
\* returned; when n > 0 it makes one Write on the target with exactly the n
\* bytes just read, whatever that Write returns, and when n = 0 it writes
\* nothing, so the bytes offered to the target are the bytes returned to
\* the caller, in order.  Close calls Close on the target when it is an
\* io.Closer, and nothing ever calls Close on a source.
C18_TeeCopiesWhatItReads ==
    /\ tee # Nil => tee.offered = tee.returned
    /\ (last.op = "TeeRead" /\ tee.src # Nil) =>
           LET n == last.ret[1] IN
           /\ last.calls[1].fn = "Read"
           /\ last.calls[1].layer = tee.src
           /\ last.calls[1].ret = last.ret
           /\ IF n > 0
              THEN /\ Len(last.calls) = 2
                   /\ last.calls[2].fn = "Write"
                   /\ last.calls[2].layer = tee.target
                   /\ last.calls[2].arg = SubSeq(tee.buf, 1, n)
              ELSE Len(last.calls) = 1
    /\ last.op = "TeeClose" =>
           last.calls = IF tee.target.closer
                        THEN <<Call("Close", 0, tee.target, Nil, last.ret)>>
                        ELSE <<>>
    /\ tee # Nil => tee.closed \subseteq {tee.target}

\* A short read into a longer buffer whose copy the target refused, after
\* earlier reads and a Close of the target.
C18_Witness ==
    /\ last.op = "TeeRead"
    /\ tee.src # Nil
    /\ tee.src.closer
    /\ last.ret[1] = 1
    /\ Len(last.arg) = 2
    /\ last.ret[2] = EOF
    /\ last.calls[2].ret[2] = ErrLayerWrite
    /\ Len(tee.returned) = MaxTeeBytes
    /\ tee.closed # {}

====
